---- MODULE Spec2Model ----
(***************************************************************************)
(* The two crawlers of cctv-news: the day-to-day sync (index.js, main) and *)
(* the historical downloader (HistoricalDownloader.run), over one store of *)
(* day records kept as assets/{year}/{date}.json; the parts of the site    *)
(* builder (build.js) that read that store: generateNewsIndex,             *)
(* generateDailySummary, generateArchivePages and generateAPIEndpoints;    *)
(* and the request handler of the local static server.                     *)
(*                                                                         *)
(* Date keys are the 8-digit strings YYYYMMDD of the source, kept as the   *)
(* number they spell; string comparison of two keys is then <.             *)
(***************************************************************************)
EXTENDS Integers, Sequences, FiniteSets, TLC

(***************************************************************************)
(* Program constants                                                       *)
(***************************************************************************)
startDate == 20110101
defaultEndDate == 20120701
lookbackDays == 7
syncDelayMs == 1000
histDelayMs == 800
null == 0

(***************************************************************************)
(* Bounds of the model                                                     *)
(***************************************************************************)
\* runs of a crawler in one behaviour
MaxRuns == 2
\* midnights the Beijing clock passes in one behaviour
MaxTicks == 1
\* dates for which the remote source answers anything but a non-empty record
MaxFlaky == 1
\* day records in the store before the first run
MaxInitFiles == 2
\* the clock starts this many days after startDate
ClockOffset == 2
\* generateNewsIndex passes in one behaviour
MaxBuilds == 2
\* day records in the store the index passes and the daily summary read
MaxIndexFiles == 2
\* generateDailySummary calls in one behaviour
MaxSummaries == 1

(***************************************************************************)
(* moment: parsing a date key to a day number, formatting it back, adding   *)
(* days and taking the difference in days (proleptic Gregorian calendar).  *)
(***************************************************************************)
yearOf(d) == d \div 10000
monthOf(d) == (d \div 100) % 100
dayOf(d) == d % 100

\* moment(dateStr, 'YYYYMMDD'): the day number of a date key
moment(d) ==
  LET y == IF monthOf(d) <= 2 THEN yearOf(d) - 1 ELSE yearOf(d)
      era == y \div 400
      yoe == y - era * 400
      mp == IF monthOf(d) > 2 THEN monthOf(d) - 3 ELSE monthOf(d) + 9
      doy == (153 * mp + 2) \div 5 + dayOf(d) - 1
      doe == yoe * 365 + yoe \div 4 - yoe \div 100 + doy
  IN era * 146097 + doe - 719468

\* .format('YYYYMMDD'): the date key of a day number
format(n) ==
  LET z == n + 719468
      era == z \div 146097
      doe == z - era * 146097
      yoe == (doe - doe \div 1460 + doe \div 36524 - doe \div 146096) \div 365
      doy == doe - (365 * yoe + yoe \div 4 - yoe \div 100)
      mp == (5 * doy + 2) \div 153
      dd == doy - (153 * mp + 2) \div 5 + 1
      mm == IF mp < 10 THEN mp + 3 ELSE mp - 9
      yy == yoe + era * 400 + (IF mm <= 2 THEN 1 ELSE 0)
  IN yy * 10000 + mm * 100 + dd

\* moment.add(n, 'days') / .subtract(n, 'days') on a date key
addDays(d, n) == format(moment(d) + n)

\* a.diff(b, 'days')
diffDays(a, b) == moment(a) - moment(b)

\* a.isSameOrBefore(b)
isSameOrBefore(a, b) == moment(a) <= moment(b)

\* the date keys from a to b inclusive, ascending (empty when a is after b)
dateRange(a, b) ==
  IF moment(a) > moment(b) THEN << >>
  ELSE [k \in 1..(moment(b) - moment(a) + 1) |-> format(moment(a) + k - 1)]

(***************************************************************************)
(* State                                                                   *)
(***************************************************************************)
VARIABLES
  root,            \* the assets directory exists
  assets,          \* the .json files under it: path <<year, date>> |-> content
  others,          \* its other entries: name |-> "file" | "dir" | "nostat" | "nolist"
  clock,           \* the Beijing calendar date shown by the system clock
  ticks,           \* midnights passed so far
  flaky,           \* dates for which the remote source has failed or been empty
  runs,            \* crawler processes that have exited
  crawler,         \* the running process: "none" | "sync" | "hist"
  pc,              \* its position: "idle" | "loop" | "fetching" | "delay" | "done"
  branch,          \* main(): "fallback" | "gap" | "recheck"
  today,           \* main(): today
  latestAssetDate, \* main(): latestAssetDate
  i,               \* main(): the index of the 7-day loop
  current,         \* the date cursor of the gap loop and of run()
  endDate,         \* HistoricalDownloader.endDate
  totalDays,       \* run(): totalDays
  processed,       \* run(): processed
  downloaded, skipped, noData, errors,   \* the outcome counters
  dateStr,         \* the argument of the downloadDate call in progress
  inflight,        \* loadData calls that have not returned
  waited,          \* ms of inter-request delay elapsed since the last downloadDate returned
  calls,           \* downloadDate calls of this run: <<date, result, answer>>
  exitCode,        \* the exit code of the process
  startedAt,       \* the clock date at which this run started
  prevCrawler, prevCalls, prevStartedAt,  \* the same of the previous run
  failedBefore,    \* per crawler: dates whose fetch failed in an earlier run of it
  origEarliest,    \* the earliest stored date seen by the first historical run
  report,          \* what printSummary has printed: the total and the success rate
  site,            \* the output of the build: archive pages and search index
  server,          \* the local static server: the files it sees, its last exchange
  passes,          \* the generateNewsIndex passes so far: [at, sorted, index]
  summaries        \* the generateDailySummary calls so far

vars == <<root, assets, clock, ticks, flaky, runs, crawler, pc, branch, today,
          latestAssetDate, i, current, endDate, totalDays, processed,
          downloaded, skipped, noData, errors, dateStr, inflight, waited,
          calls, exitCode, startedAt, prevCrawler, prevCalls, prevStartedAt,
          failedBefore, origEarliest, others, passes, summaries, report, site, server>>

\* what a fetch may do: write a record with items, write an empty record,
\* return without a file, throw; "readfail" is a record with items written
\* and the read of the file that follows failing, which only the historical
\* crawler, the one that reads the file back, can meet
Answers == {"items", "empty", "readfail", "nofile", "throw"}
SyncAnswers == Answers \ {"readfail"}

\* the answers with which the fetch leaves a file at the canonical path
Writes == {"items", "empty", "readfail"}

(***************************************************************************)
(* The store                                                               *)
(***************************************************************************)
Max(S) == CHOOSE x \in S : \A y \in S : y <= x
Min(S) == CHOOSE x \in S : \A y \in S : x <= y

\* The content of a .json file: whether it parses as JSON, whether the parsed
\* object has a videoList, and the items of that list. An item carries its
\* news_hl_tag, a string kept as the sequence of its words and delimiters.
dayRecord(items) == [json |-> TRUE, hasList |-> TRUE, videoList |-> items]
wrongShape == [json |-> TRUE, hasList |-> FALSE, videoList |-> << >>]
notJson == [json |-> FALSE, hasList |-> FALSE, videoList |-> << >>]
\* a news item of a videoList, with the two fields the builder reads
newsItem(id, tag) == [video_id |-> id, news_hl_tag |-> tag]
video(tag) == newsItem(1, tag)

\* what the remote source holds for a date that has news, and for one without
remoteItems == <<video(<<"politics">>)>>
contentOf(answer) ==
  IF answer = "empty" THEN dayRecord(<< >>) ELSE dayRecord(remoteItems)

\* mutant of newsCount: a record counts as one item whatever its list holds
newsCountOfFile(data) == IF data.hasList THEN 1 ELSE 0

\* data.videoList ? data.videoList.length : 0
newsCount(data) == IF data.hasList THEN Len(data.videoList) ELSE 0

\* assets/${year}/${dateStr}.json with year = dateStr.substring(0, 4)
pathOf(d) == <<yearOf(d), d>>

\* mutants of fileExists: the check dropped; the year directory left out of the path
fileExistsNever(d) == FALSE
fileExistsFlat(d) == <<0, d>> \in DOMAIN assets

fileExists(d) == pathOf(d) \in DOMAIN assets

\* the year directories, and the .json files of one, as date keys
yearDirs == {p[1] : p \in DOMAIN assets}
jsonFiles(y) == {p[2] : p \in {q \in DOMAIN assets : q[1] = y}}

\* fs.readdir(assetsDir): the names under the root. A name is kept as a
\* number: a year directory as its year, any other name as a number that
\* sorts where the name does (0 before every year, 9999 after).
rootNames == yearDirs \cup DOMAIN others
entryKind(name) == IF name \in DOMAIN others THEN others[name] ELSE "dir"

\* mutant of scanYears: the loop ends at the first directory without a .json file
RECURSIVE scanYearsStopsAtEmpty(_, _)
scanYearsStopsAtEmpty(names, latestFirst) ==
  IF names = {} THEN [threw |-> FALSE, date |-> null]
  ELSE LET year == IF latestFirst THEN Max(names) ELSE Min(names)
       IN CASE entryKind(year) \in {"nostat", "nolist"} -> [threw |-> TRUE, date |-> null]
            [] entryKind(year) = "file" -> scanYearsStopsAtEmpty(names \ {year}, latestFirst)
            [] jsonFiles(year) = {} -> [threw |-> FALSE, date |-> null]
            [] OTHER -> [threw |-> FALSE,
                         date |-> IF latestFirst THEN Max(jsonFiles(year))
                                  ELSE Min(jsonFiles(year))]

\* the loop over the sorted names of both finders: stat, skip what is not a
\* directory, list, stop at the first directory with a .json file; a stat or
\* a listing that fails throws
RECURSIVE scanYears(_, _)
scanYears(names, latestFirst) ==
  IF names = {} THEN [threw |-> FALSE, date |-> null]
  ELSE LET year == IF latestFirst THEN Max(names) ELSE Min(names)
       IN CASE entryKind(year) \in {"nostat", "nolist"} -> [threw |-> TRUE, date |-> null]
            [] entryKind(year) = "file" -> scanYears(names \ {year}, latestFirst)
            [] jsonFiles(year) = {} -> scanYears(names \ {year}, latestFirst)
            [] OTHER -> [threw |-> FALSE,
                         date |-> IF latestFirst THEN Max(jsonFiles(year))
                                  ELSE Min(jsonFiles(year))]

\* years.sort().reverse(): the first year with a .json file, its last file;
\* null when anything throws
findLatestAssetDate ==
  IF ~root \/ scanYears(rootNames, TRUE).threw THEN null
  ELSE scanYears(rootNames, TRUE).date

\* years.sort(): the first year with a .json file, its first file
findEarliestThrows == ~root \/ scanYears(rootNames, FALSE).threw
findEarliestExistingRecord == scanYears(rootNames, FALSE).date

\* the fetch collaborator: writes the record of d at its canonical path, or
\* returns without writing, or throws
loadData(d, answer) ==
  IF answer \in Writes THEN (pathOf(d) :> contentOf(answer)) @@ assets ELSE assets

\* the remote source fails, or is empty, for at most MaxFlaky dates
mayAnswer(d, answer) ==
  answer = "items" \/ d \in flaky \/ Cardinality(flaky) < MaxFlaky

flakyAfter(d, answer) == IF answer = "items" THEN flaky ELSE flaky \cup {d}

(***************************************************************************)
(* Initial states                                                          *)
(***************************************************************************)
\* mutant of mathRoundPercent: the percentage is cut, not rounded
mathFloorPercent(num, den) ==
  IF den = 0
  THEN [kind |-> IF num = 0 THEN "NaN" ELSE "Infinity", value |-> 0]
  ELSE [kind |-> "number", value |-> (100 * num) \div den]

\* Math.round(num / den * 100): the nearest integer, a half rounded up; a
\* division by zero gives NaN for 0 / 0 and Infinity otherwise
mathRoundPercent(num, den) ==
  IF den = 0
  THEN [kind |-> IF num = 0 THEN "NaN" ELSE "Infinity", value |-> 0]
  ELSE LET n == IF den < 0 THEN -num ELSE num
           d == IF den < 0 THEN -den ELSE den
       IN [kind |-> "number", value |-> (200 * n + d) \div (2 * d)]

\* printSummary(total): the lines "Total days processed" and "Success rate"
printSummary(total) ==
  [printed |-> TRUE, total |-> total,
   successRate |-> mathRoundPercent(downloaded, total - skipped)]

\* local-static-server.js: distDir, under the directory of the script
distDir == <<"dist">>

\* the directory of the script with an empty dist: path |-> "file" | "dir"
bareTree == (<< >> :> "dir") @@ (distDir :> "dir")

\* the server before its first request
noExchange(tree) ==
  [tree |-> tree, url |-> [path |-> << >>, query |-> ""], answered |-> FALSE,
   status |-> 0, served |-> << >>, accessed |-> {}]

\* the output directory after fs.remove and ensureDir: nothing generated
noSite ==
  [built |-> 0, stage |-> "none", daysLimit |-> null, at |-> null,
   yearPages |-> {}, dayPages |-> {}, search |-> << >>, recent |-> << >>]

noReport == [printed |-> FALSE, total |-> 0, successRate |-> [kind |-> "number", value |-> 0]]

InitOffsets == {-1, 1, 2, 4}
InitDates == {addDays(startDate, k) : k \in InitOffsets}
storeOf(S) == [p \in {pathOf(d) : d \in S} |-> dayRecord(remoteItems)]
InitStores == {storeOf(S) : S \in {T \in SUBSET InitDates : T # {} /\ Cardinality(T) <= MaxInitFiles}}

InitIdle ==
  /\ ticks = 0 /\ runs = 0
  /\ crawler = "none" /\ pc = "idle" /\ branch = ""
  /\ today = null /\ latestAssetDate = null /\ i = 0 /\ current = null
  /\ endDate = defaultEndDate /\ totalDays = 0 /\ processed = 0
  /\ downloaded = 0 /\ skipped = 0 /\ noData = 0 /\ errors = 0
  /\ dateStr = null /\ inflight = 0 /\ waited = 0 /\ calls = << >>
  /\ exitCode = 0 /\ startedAt = null
  /\ prevCrawler = "none" /\ prevCalls = << >> /\ prevStartedAt = null
  /\ failedBefore = [c \in {"sync", "hist"} |-> {}]
  /\ origEarliest = null
  /\ passes = << >> /\ summaries = << >>
  /\ report = noReport
  /\ site = noSite

InitProcess == InitIdle /\ server = noExchange(bareTree)

Init ==
  /\ InitProcess
  /\ flaky = {}
  /\ clock = addDays(startDate, ClockOffset)
  /\ others = << >>
  /\ \/ root = FALSE /\ assets = storeOf({})
     \/ root = TRUE /\ assets \in InitStores

(***************************************************************************)
(* index.js: downloadDate and main()                                       *)
(***************************************************************************)
\* the result of downloadDate once loadData has answered
syncResult(answer, existsAfter) ==
  IF answer = "throw" THEN "error"
  ELSE IF existsAfter THEN "success" ELSE "nodata"

\* mutant of gapStart: the loop starts at the latest stored date itself
gapStartAtLatest(latest) == latest

\* the first date of the gap loop
gapStart(latest) == addDays(latest, 1)

\* the date of iteration k of the 7-day loop, read off the clock at that moment
lookbackDate(k) == addDays(clock, -k)

\* switch (result) of the gap loop: the increments of downloaded, skipped, errors
gapCount(result) ==
  CASE result = "success" -> <<1, 0, 0>>
    [] result = "exists" -> <<0, 1, 0>>
    [] result \in {"error", "nodata"} -> <<0, 0, 1>>
    [] OTHER -> <<0, 0, 0>>

\* mutant of delayOf: the timer is given no delay
delayOfNone(c) == 0

\* the inter-request delay of each crawler
delayOf(c) == IF c = "hist" THEN histDelayMs ELSE syncDelayMs

history == <<prevCrawler, prevCalls, prevStartedAt, failedBefore, origEarliest>>
builder == <<passes, summaries, site, server>>
histLocals == <<endDate, totalDays, processed, noData, report>>

\* main() up to its first downloadDate
SyncStart ==
  /\ crawler = "none" /\ pc = "idle" /\ runs < MaxRuns
  /\ crawler' = "sync"
  /\ today' = clock /\ startedAt' = clock
  /\ latestAssetDate' = findLatestAssetDate
  /\ LET latest == findLatestAssetDate
         daysBehind == diffDays(clock, latest)
     IN IF latest = null
        THEN /\ branch' = "fallback" /\ i' = 0 /\ pc' = "loop"
             /\ UNCHANGED <<current, dateStr, inflight, exitCode>>
        ELSE IF daysBehind <= 0
        THEN /\ branch' = "recheck"
             /\ IF daysBehind = 0 /\ ~fileExists(clock)
                THEN /\ pc' = "fetching" /\ dateStr' = clock
                     /\ inflight' = inflight + 1
                     /\ UNCHANGED exitCode
                ELSE /\ pc' = "done" /\ exitCode' = 0
                     /\ UNCHANGED <<dateStr, inflight>>
             /\ UNCHANGED <<i, current>>
        ELSE /\ branch' = "gap" /\ current' = gapStart(latest) /\ pc' = "loop"
             /\ UNCHANGED <<i, dateStr, inflight, exitCode>>
  /\ UNCHANGED <<root, assets, clock, ticks, flaky, runs, downloaded, skipped,
                 errors, waited, calls>>
  /\ UNCHANGED histLocals /\ UNCHANGED history
  /\ UNCHANGED others /\ UNCHANGED builder

\* one iteration of the 7-day loop, up to the loadData call
SyncFallbackIter ==
  /\ crawler = "sync" /\ branch = "fallback" /\ pc = "loop"
  /\ IF i < lookbackDays
     THEN LET d == lookbackDate(i)
          IN /\ dateStr' = d
             /\ IF fileExists(d)
                THEN /\ calls' = Append(calls, <<d, "exists", "none">>)
                     /\ pc' = "delay" /\ waited' = 0
                     /\ UNCHANGED inflight
                ELSE /\ pc' = "fetching" /\ inflight' = inflight + 1
                     /\ UNCHANGED <<calls, waited>>
             /\ UNCHANGED exitCode
     ELSE /\ pc' = "done" /\ exitCode' = 0
          /\ UNCHANGED <<dateStr, calls, waited, inflight>>
  /\ UNCHANGED <<root, assets, clock, ticks, flaky, runs, crawler, branch, today,
                 latestAssetDate, i, current, downloaded, skipped, errors, startedAt>>
  /\ UNCHANGED histLocals /\ UNCHANGED history
  /\ UNCHANGED others /\ UNCHANGED builder

\* one iteration of the gap loop, up to the loadData call
SyncGapIter ==
  /\ crawler = "sync" /\ branch = "gap" /\ pc = "loop"
  /\ IF isSameOrBefore(current, today)
     THEN /\ dateStr' = current
          /\ IF fileExists(current)
             THEN /\ calls' = Append(calls, <<current, "exists", "none">>)
                  /\ downloaded' = downloaded + gapCount("exists")[1]
                  /\ skipped' = skipped + gapCount("exists")[2]
                  /\ errors' = errors + gapCount("exists")[3]
                  /\ current' = addDays(current, 1)
                  /\ pc' = "delay" /\ waited' = 0
                  /\ UNCHANGED inflight
             ELSE /\ pc' = "fetching" /\ inflight' = inflight + 1
                  /\ UNCHANGED <<calls, downloaded, skipped, errors, current, waited>>
          /\ UNCHANGED exitCode
     ELSE /\ pc' = "done" /\ exitCode' = 0
          /\ UNCHANGED <<dateStr, calls, downloaded, skipped, errors, current,
                         waited, inflight>>
  /\ UNCHANGED <<root, assets, clock, ticks, flaky, runs, crawler, branch, today,
                 latestAssetDate, i, startedAt>>
  /\ UNCHANGED histLocals /\ UNCHANGED history
  /\ UNCHANGED others /\ UNCHANGED builder

\* loadData answers; downloadDate verifies the file and returns; main() counts
SyncLoadDataDone ==
  /\ crawler = "sync" /\ pc = "fetching"
  /\ \E answer \in SyncAnswers :
       /\ mayAnswer(dateStr, answer)
       /\ flaky' = flakyAfter(dateStr, answer)
       /\ assets' = loadData(dateStr, answer)
       /\ root' = (root \/ answer \in Writes)
       /\ LET result == syncResult(answer, pathOf(dateStr) \in DOMAIN loadData(dateStr, answer))
          IN /\ calls' = Append(calls, <<dateStr, result, answer>>)
             /\ IF branch = "gap"
                THEN /\ downloaded' = downloaded + gapCount(result)[1]
                     /\ skipped' = skipped + gapCount(result)[2]
                     /\ errors' = errors + gapCount(result)[3]
                     /\ current' = addDays(current, 1)
                ELSE /\ downloaded' = IF branch = "fallback" /\ result = "success"
                                      THEN downloaded + 1 ELSE downloaded
                     /\ UNCHANGED <<skipped, errors, current>>
  /\ inflight' = inflight - 1
  /\ waited' = 0
  /\ IF branch = "recheck"
     THEN pc' = "done" /\ exitCode' = 0
     ELSE pc' = "delay" /\ UNCHANGED exitCode
  /\ UNCHANGED <<clock, ticks, runs, crawler, branch, today, latestAssetDate, i,
                 dateStr, startedAt>>
  /\ UNCHANGED histLocals /\ UNCHANGED history
  /\ UNCHANGED others /\ UNCHANGED builder

\* await new Promise(resolve => setTimeout(resolve, 1000))
SyncDelay ==
  /\ crawler = "sync" /\ pc = "delay"
  /\ waited' = delayOf("sync")
  /\ i' = IF branch = "fallback" THEN i + 1 ELSE i
  /\ pc' = "loop"
  /\ UNCHANGED <<root, assets, clock, ticks, flaky, runs, crawler, branch, today,
                 latestAssetDate, current, downloaded, skipped, errors, dateStr,
                 inflight, calls, exitCode, startedAt>>
  /\ UNCHANGED histLocals /\ UNCHANGED history
  /\ UNCHANGED others /\ UNCHANGED builder

(***************************************************************************)
(* HistoricalDownloader                                                    *)
(***************************************************************************)
syncLocals == <<branch, today, latestAssetDate, i>>

\* mutant of histEnd: the earliest stored date is not stepped back by a day
histEndInclusive(earliest) ==
  IF earliest # null THEN earliest ELSE endDate

\* run(): the end date computed from the earliest stored record
histEnd(earliest) ==
  IF earliest # null THEN addDays(earliest, -1) ELSE endDate

\* mutant of histResult: a record without items is an error
histResultEmptyIsError(answer, existsAfter, data) ==
  IF answer = "throw" THEN "error"
  ELSE IF existsAfter /\ data.json /\ newsCount(data) > 0 THEN "success" ELSE "error"

\* mutant of histResult: a read that fails is taken for a record without items
histResultNoCatch(answer, existsAfter, data) ==
  IF answer = "throw" THEN "error"
  ELSE IF existsAfter
       THEN (IF answer # "readfail" /\ newsCount(data) > 0 THEN "success" ELSE "nodata")
       ELSE "error"

\* the result of downloadDate once loadData has answered; data is the
\* content of the file read back when it exists (a readJson that throws, on
\* a failing read or a file that does not parse, is caught and is an error)
histResult(answer, existsAfter, data) ==
  IF answer = "throw" THEN "error"
  ELSE IF existsAfter
       THEN (IF answer = "readfail" \/ ~data.json THEN "error"
             ELSE IF newsCount(data) > 0 THEN "success" ELSE "nodata")
       ELSE "error"

\* mutant of histCount: the failed outcomes are not counted
histCountDropsErrors(result) ==
  CASE result = "success" -> <<1, 0, 0, 0>>
    [] result = "exists" -> <<0, 1, 0, 0>>
    [] result = "nodata" -> <<0, 0, 1, 0>>
    [] OTHER -> <<0, 0, 0, 0>>

\* the increments of downloaded, skipped, noData, errors in downloadDate
histCount(result) ==
  CASE result = "success" -> <<1, 0, 0, 0>>
    [] result = "exists" -> <<0, 1, 0, 0>>
    [] result = "nodata" -> <<0, 0, 1, 0>>
    [] OTHER -> <<0, 0, 0, 1>>

\* run() up to its loop; a missing assets directory rejects run(), and the
\* catch handler exits with code 1
HistStart ==
  /\ crawler = "none" /\ pc = "idle" /\ runs < MaxRuns
  /\ crawler' = "hist" /\ startedAt' = clock
  /\ IF findEarliestThrows
     THEN /\ pc' = "done" /\ exitCode' = 1
          /\ UNCHANGED <<endDate, totalDays, current, origEarliest>>
     ELSE LET earliest == findEarliestExistingRecord
          IN /\ endDate' = histEnd(earliest)
             /\ totalDays' = diffDays(histEnd(earliest), startDate) + 1
             /\ current' = startDate
             /\ origEarliest' = IF origEarliest = null THEN earliest ELSE origEarliest
             /\ pc' = "loop"
             /\ UNCHANGED exitCode
  /\ UNCHANGED <<root, assets, clock, ticks, flaky, runs, processed, downloaded,
                 skipped, noData, errors, dateStr, inflight, waited, calls,
                 prevCrawler, prevCalls, prevStartedAt, failedBefore, report>>
  /\ UNCHANGED syncLocals
  /\ UNCHANGED others /\ UNCHANGED builder

\* one iteration of run()'s loop, up to the loadData call
HistIter ==
  /\ crawler = "hist" /\ pc = "loop"
  /\ IF isSameOrBefore(current, endDate)
     THEN /\ dateStr' = current
          /\ processed' = processed + 1
          /\ IF fileExists(current)
             THEN /\ calls' = Append(calls, <<current, "exists", "none">>)
                  /\ downloaded' = downloaded + histCount("exists")[1]
                  /\ skipped' = skipped + histCount("exists")[2]
                  /\ noData' = noData + histCount("exists")[3]
                  /\ errors' = errors + histCount("exists")[4]
                  /\ current' = addDays(current, 1)
                  /\ pc' = "delay" /\ waited' = 0
                  /\ UNCHANGED inflight
             ELSE /\ pc' = "fetching" /\ inflight' = inflight + 1
                  /\ UNCHANGED <<calls, downloaded, skipped, noData, errors,
                                 current, waited>>
          /\ UNCHANGED <<exitCode, report>>
     ELSE /\ pc' = "done" /\ exitCode' = 0
          /\ report' = printSummary(totalDays)
          /\ UNCHANGED <<dateStr, processed, calls, downloaded, skipped, noData,
                         errors, current, waited, inflight>>
  /\ UNCHANGED <<root, assets, clock, ticks, flaky, runs, crawler, endDate,
                 totalDays, startedAt>>
  /\ UNCHANGED syncLocals /\ UNCHANGED history
  /\ UNCHANGED others /\ UNCHANGED builder

\* loadData answers; downloadDate reads the file back, counts and returns
HistLoadDataDone ==
  /\ crawler = "hist" /\ pc = "fetching"
  /\ \E answer \in Answers :
       /\ mayAnswer(dateStr, answer)
       /\ flaky' = flakyAfter(dateStr, answer)
       /\ assets' = loadData(dateStr, answer)
       /\ root' = (root \/ answer \in Writes)
       /\ LET after == loadData(dateStr, answer)
              existsAfter == pathOf(dateStr) \in DOMAIN after
              result == histResult(answer, existsAfter,
                                   IF existsAfter THEN after[pathOf(dateStr)] ELSE notJson)
          IN /\ calls' = Append(calls, <<dateStr, result, answer>>)
             /\ downloaded' = downloaded + histCount(result)[1]
             /\ skipped' = skipped + histCount(result)[2]
             /\ noData' = noData + histCount(result)[3]
             /\ errors' = errors + histCount(result)[4]
  /\ current' = addDays(current, 1)
  /\ inflight' = inflight - 1
  /\ waited' = 0
  /\ pc' = "delay"
  /\ UNCHANGED <<clock, ticks, runs, crawler, endDate, totalDays, processed,
                 dateStr, exitCode, startedAt, report>>
  /\ UNCHANGED syncLocals /\ UNCHANGED history
  /\ UNCHANGED others /\ UNCHANGED builder

\* await new Promise(resolve => setTimeout(resolve, 800))
HistDelay ==
  /\ crawler = "hist" /\ pc = "delay"
  /\ waited' = delayOf("hist")
  /\ pc' = "loop"
  /\ UNCHANGED <<root, assets, clock, ticks, flaky, runs, crawler, current,
                 endDate, totalDays, processed, downloaded, skipped, noData,
                 errors, dateStr, inflight, calls, exitCode, startedAt, report>>
  /\ UNCHANGED syncLocals /\ UNCHANGED history
  /\ UNCHANGED others /\ UNCHANGED builder

(***************************************************************************)
(* The process ends; the clock                                             *)
(***************************************************************************)
\* the dates of this run whose fetch threw or created no file
failedDates(cs) == {cs[k][1] : k \in {j \in DOMAIN cs : cs[j][3] \in {"nofile", "throw"}}}

\* the crawler process exits; the next one starts from a fresh process
Exit ==
  /\ pc = "done"
  /\ prevCrawler' = crawler /\ prevCalls' = calls /\ prevStartedAt' = startedAt
  /\ failedBefore' = [failedBefore EXCEPT ![crawler] = @ \cup failedDates(calls)]
  /\ runs' = runs + 1
  /\ crawler' = "none" /\ pc' = "idle" /\ branch' = ""
  /\ today' = null /\ latestAssetDate' = null /\ i' = 0 /\ current' = null
  /\ endDate' = defaultEndDate /\ totalDays' = 0 /\ processed' = 0
  /\ downloaded' = 0 /\ skipped' = 0 /\ noData' = 0 /\ errors' = 0
  /\ dateStr' = null /\ waited' = 0 /\ calls' = << >> /\ startedAt' = null
  /\ report' = noReport
  /\ UNCHANGED <<root, assets, clock, ticks, flaky, inflight, exitCode, origEarliest>>
  /\ UNCHANGED others /\ UNCHANGED builder

\* midnight in Beijing passes, between two runs or while a run sleeps (the
\* clock is read only when main() starts and at the top of an iteration of the
\* 7-day loop, so a midnight during a fetch reads the same as one during the
\* delay that follows it)
Tick ==
  /\ pc \in {"idle", "delay"}
  /\ ticks < MaxTicks
  /\ ticks' = ticks + 1
  /\ clock' = addDays(clock, 1)
  /\ UNCHANGED <<root, assets, flaky, runs, crawler, pc, branch, today,
                 latestAssetDate, i, current, endDate, totalDays, processed,
                 downloaded, skipped, noData, errors, dateStr, inflight, waited,
                 calls, exitCode, startedAt, report>>
  /\ UNCHANGED history
  /\ UNCHANGED others /\ UNCHANGED builder

Next ==
  \/ SyncStart \/ SyncFallbackIter \/ SyncGapIter \/ SyncLoadDataDone \/ SyncDelay
  \/ HistStart \/ HistIter \/ HistLoadDataDone \/ HistDelay
  \/ Exit \/ Tick

Spec == Init /\ [][Next]_vars

(***************************************************************************)
(* The historical backfill alone, over the stores of the initial states    *)
(* and the store holding only 20120701..20120703 (and the empty one); the  *)
(* remote source holds a non-empty record for every date but the day after *)
(* startDate, for which it may answer anything.                            *)
(***************************************************************************)
backfillDates == {20120701, 20120702, 20120703}

InitHist ==
  /\ InitProcess
  /\ flaky = {addDays(startDate, 1)} \cup {addDays(startDate, -k) : k \in 1..MaxFlaky}
  /\ clock = addDays(Max(backfillDates), 1)
  /\ root = TRUE
  /\ others = << >>
  /\ assets \in InitStores \cup {storeOf(backfillDates), storeOf({})}

NextHist == HistStart \/ HistIter \/ HistLoadDataDone \/ HistDelay \/ Exit

SpecBackfill == InitHist /\ [][NextHist]_vars

(***************************************************************************)
(* build.js: generateNewsIndex                                             *)
(***************************************************************************)
recentDays == 30
recentCap == 100
Delims == {",", " "}

isWord(t) == t \notin Delims
nonEmpty(cat) == cat # ""

\* news_hl_tag.split(/[,\s]+/): the words between the runs of delimiters, with
\* an empty string where the tag starts or ends with a delimiter (two words
\* of a tag are always apart by a delimiter)
split(tag) ==
  (IF tag # << >> /\ Head(tag) \in Delims THEN <<"">> ELSE << >>)
  \o SelectSeq(tag, isWord)
  \o (IF tag # << >> /\ tag[Len(tag)] \in Delims THEN <<"">> ELSE << >>)

\* mutant of countCategory: every word is counted
countCategoryCountsAll(cats, cat) ==
  IF cat \in DOMAIN cats THEN [cats EXCEPT ![cat] = @ + 1]
  ELSE (cat :> 1) @@ cats

\* index.categories[cleanCat] = (index.categories[cleanCat] || 0) + 1
countCategory(cats, cat) ==
  IF cat = "" \/ cat = "General" THEN cats
  ELSE IF cat \in DOMAIN cats THEN [cats EXCEPT ![cat] = @ + 1]
  ELSE (cat :> 1) @@ cats

RECURSIVE countCategories(_, _)
countCategories(cats, words) ==
  IF words = << >> THEN cats
  ELSE countCategories(countCategory(cats, Head(words)), Tail(words))

\* data.videoList.forEach(video => ...): the categories of the items of a file
RECURSIVE countVideos(_, _)
countVideos(cats, videos) ==
  IF videos = << >> THEN cats
  ELSE LET tag == Head(videos).news_hl_tag
           counted == IF tag = << >> THEN cats
                      ELSE countCategories(cats, SelectSeq(split(tag), nonEmpty))
       IN IF counted = cats THEN countVideos(cats, Tail(videos))
          ELSE countVideos(counted, Tail(videos))

\* mutant of newIndex: the date range starts at the first date of the source
newIndexFromStart ==
  [failed |-> FALSE, totalNews |-> 0,
   dateRange |-> [start |-> startDate, end |-> null],
   years |-> << >>, categories |-> << >>, recentNews |-> << >>, warnings |-> << >>]

\* the index before the first file; failed marks a pass that rejected, and
\* warnings lists the files for which console.warn was called
newIndex ==
  [failed |-> FALSE, totalNews |-> 0, dateRange |-> [start |-> null, end |-> null],
   years |-> << >>, categories |-> << >>, recentNews |-> << >>, warnings |-> << >>]

rejected == [newIndex EXCEPT !.failed = TRUE]

\* the body of the loop over the .json files of a year directory
indexFile(ix, year, date, now) ==
  LET data == assets[<<year, date>>]
      n == newsCount(data)
      month == monthOf(date)
      months == ix.years[year].months
      summary == [date |-> date, newsCount |-> n, file |-> <<year, date>>]
  IN IF ~data.json
     THEN [ix EXCEPT !.warnings = Append(@, <<year, date>>)]
     ELSE [ix EXCEPT
             !.totalNews = @ + n,
             !.years[year].totalNews = @ + n,
             !.dateRange.start = IF @ = null \/ date < @ THEN date ELSE @,
             !.dateRange.end = IF @ = null \/ date > @ THEN date ELSE @,
             !.years[year].months =
                IF month \in DOMAIN months
                THEN [months EXCEPT ![month] = Append(@, summary)]
                ELSE (month :> <<summary>>) @@ months,
             !.categories = IF data.hasList THEN countVideos(@, data.videoList) ELSE @,
             !.recentNews =
                IF diffDays(now, date) <= recentDays /\ data.hasList
                THEN @ \o [k \in 1..Len(data.videoList) |->
                             [video |-> data.videoList[k], date |-> date, year |-> year]]
                ELSE @]

\* mutant of indexFiles: the files of a year are taken latest first
RECURSIVE indexFilesLatestFirst(_, _, _, _)
indexFilesLatestFirst(ix, year, dates, now) ==
  IF dates = {} THEN ix
  ELSE indexFilesLatestFirst(indexFile(ix, year, Max(dates), now), year,
                             dates \ {Max(dates)}, now)

\* for (const file of jsonFiles), the files sorted by name
RECURSIVE indexFiles(_, _, _, _)
indexFiles(ix, year, dates, now) ==
  IF dates = {} THEN ix
  ELSE indexFiles(indexFile(ix, year, Min(dates), now), year, dates \ {Min(dates)}, now)

\* for (const year of years), in the order readdir listed the names; a stat
\* or a listing that fails rejects the pass
RECURSIVE indexYears(_, _, _)
indexYears(ix, listing, now) ==
  IF listing = << >> THEN ix
  ELSE LET year == Head(listing)
       IN CASE entryKind(year) \in {"nostat", "nolist"} -> rejected
            [] entryKind(year) = "file" -> indexYears(ix, Tail(listing), now)
            [] OTHER ->
                 indexYears(
                   indexFiles([ix EXCEPT !.years = (year :> [months |-> << >>, totalNews |-> 0]) @@ @],
                              year, jsonFiles(year), now),
                   Tail(listing), now)

\* mutant of sortByDate: the items stay in the order they were pushed
sortByDateKeepsOrder(items, dates) == items

\* recentNews.sort((a, b) => b.date.localeCompare(a.date)): latest date first,
\* the items of one date in the order they were pushed
RECURSIVE sortByDate(_, _)
sortByDate(items, dates) ==
  IF dates = {} THEN << >>
  ELSE LET latest == Max(dates)
           ofLatest(v) == v.date = latest
       IN SelectSeq(items, ofLatest) \o sortByDate(items, dates \ {latest})

\* mutant of slice: the list is not cut
sliceKeepsAll(items, n) == items

\* recentNews.slice(0, 100)
slice(items, n) == SubSeq(items, 1, IF Len(items) < n THEN Len(items) ELSE n)

generateNewsIndex(listing, now) ==
  IF ~root THEN rejected
  ELSE LET ix == indexYears(newIndex, listing, now)
       IN IF ix.failed THEN ix
          ELSE [ix EXCEPT !.recentNews =
                  slice(sortByDate(@, {@[k].date : k \in DOMAIN @}), recentCap)]

\* the orders in which readdir may list the names under the root
Listings ==
  {l \in [1..Cardinality(rootNames) -> rootNames] :
     \A a, b \in DOMAIN l : a # b => l[a] # l[b]}

inOrder(l) == \A a, b \in DOMAIN l : a < b => l[a] < l[b]

\* one generateNewsIndex pass, at the date of the clock
GenerateNewsIndex ==
  /\ Len(passes) < MaxBuilds
  /\ \E listing \in Listings :
       passes' = Append(passes, [at |-> clock, sorted |-> inOrder(listing),
                                 index |-> generateNewsIndex(listing, clock)])
  /\ UNCHANGED <<root, assets, others, clock, ticks, flaky, runs, crawler, pc,
                 inflight, waited, calls, exitCode, startedAt, dateStr, current,
                 downloaded, skipped, errors, summaries, site, server>>
  /\ UNCHANGED histLocals /\ UNCHANGED syncLocals /\ UNCHANGED history

(***************************************************************************)
(* The index passes and the two finders over stores of every shape: day    *)
(* records with and without items, files of the wrong shape and files that *)
(* do not parse, younger and older than the 30 days of recentNews, beside  *)
(* entries that are no directory, empty year directories and directories   *)
(* whose stat or listing fails. Nothing writes to the store here.          *)
(***************************************************************************)
IndexAges == {1, 2, 30, 44}
IndexDates == {addDays(addDays(startDate, ClockOffset), -age) : age \in IndexAges}

IndexContents ==
  { dayRecord(remoteItems), dayRecord(<< >>), wrongShape, notJson,
    dayRecord(<<video(<<"economy", ",", " ", "General">>),
                video(<<",", "politics", " ">>),
                video(<< >>)>>) }

IndexStores ==
  UNION {[{pathOf(d) : d \in S} -> IndexContents] :
           S \in {T \in SUBSET IndexDates : Cardinality(T) <= MaxIndexFiles}}

IndexOthers ==
  { << >>, (9999 :> "file"), (2009 :> "dir"), (2012 :> "nolist"), (2009 :> "nostat") }

InitIndex ==
  /\ InitProcess
  /\ flaky = {}
  /\ clock = addDays(startDate, ClockOffset)
  /\ \/ root = FALSE /\ assets = storeOf({}) /\ others = << >>
     \/ root = TRUE /\ assets \in IndexStores /\ others \in IndexOthers

NextIndex == GenerateNewsIndex \/ Tick

SpecIndex == InitIndex /\ [][NextIndex]_vars

(***************************************************************************)
(* The first step of each crawler, which runs its finder, over the same    *)
(* stores beside entries that are no directory and empty year directories  *)
(* on either side of the years that hold records.                          *)
(***************************************************************************)
ScanOthers ==
  { << >>,
    (2012 :> "dir") @@ (9999 :> "file"),
    (0 :> "file") @@ (2009 :> "dir"),
    (2009 :> "dir") @@ (2012 :> "dir"),
    (2012 :> "nolist"),
    (2009 :> "nostat") }

InitScan ==
  /\ InitProcess
  /\ flaky = {}
  /\ clock = addDays(startDate, ClockOffset)
  /\ \/ root = FALSE /\ assets = storeOf({}) /\ others = << >>
     \/ root = TRUE /\ assets \in IndexStores /\ others \in ScanOthers

NextScan == SyncStart \/ HistStart

SpecScan == InitScan /\ [][NextScan]_vars

(***************************************************************************)
(* build.js: generateDailySummary, as far as it reads the store: the       *)
(* lookup of today's record, the lookups of the 7 days before it, and the  *)
(* date whose items are analysed                                           *)
(***************************************************************************)
summaryYear == 2025
summaryLookback == 7

\* path.join(this.assetsDir, '2025', `${today}.json`)
todayFile(day) == <<summaryYear, day>>

\* path.join(this.assetsDir, checkDate.format('YYYY'), `${dateStr}.json`)
newsFile(day) == <<yearOf(day), day>>

\* the items read from a path; a missing file and a file that does not parse
\* throw and are caught, an object without videoList gives no items
readItems(path) ==
  IF path \in DOMAIN assets /\ assets[path].json /\ assets[path].hasList
  THEN assets[path].videoList ELSE << >>

\* mutant of fallback: the loop starts at the farthest of the days
RECURSIVE fallbackFarthest(_, _)
fallbackFarthest(day, k) ==
  IF k >= summaryLookback
  THEN [looked |-> << >>, targetDate |-> day, newsItems |-> << >>]
  ELSE LET checkDate == addDays(day, -(summaryLookback - k))
           found == readItems(newsFile(checkDate))
       IN IF found # << >>
          THEN [looked |-> <<<<checkDate, newsFile(checkDate)>>>>,
                targetDate |-> checkDate, newsItems |-> found]
          ELSE [fallbackFarthest(day, k + 1) EXCEPT
                  !.looked = <<<<checkDate, newsFile(checkDate)>>>> \o @]

\* the loop over the days before today, from iteration k on
RECURSIVE fallback(_, _)
fallback(day, k) ==
  IF k >= summaryLookback
  THEN [looked |-> << >>, targetDate |-> day, newsItems |-> << >>]
  ELSE LET checkDate == addDays(day, -(k + 1))
           found == readItems(newsFile(checkDate))
       IN IF found # << >>
          THEN [looked |-> <<<<checkDate, newsFile(checkDate)>>>>,
                targetDate |-> checkDate, newsItems |-> found]
          ELSE [fallback(day, k + 1) EXCEPT
                  !.looked = <<<<checkDate, newsFile(checkDate)>>>> \o @]

\* what the analysis directory, the API key and the AI service hold for a
\* call that has found items: a saved analysis that can be used (and no
\* forceApi), no API key, an answer of the service, a request that throws
Services == {"cached", "nokey", "ai", "aifail"}

\* the analysis returned, with the file written (null: none) and whether
\* genAI.models.generateContent was called; total_news -1 stands for '--'
generateDailySummary(day, service) ==
  LET first == readItems(todayFile(day))
      rest == IF first # << >>
              THEN [looked |-> << >>, targetDate |-> day, newsItems |-> first]
              ELSE fallback(day, 0)
      found == [today |-> day,
                looked |-> <<<<day, todayFile(day)>>>> \o rest.looked,
                targetDate |-> rest.targetDate,
                total_news |-> Len(rest.newsItems),
                has_data |-> TRUE,
                news_date |-> rest.targetDate,
                outcome |-> service,
                calledAI |-> FALSE,
                wrote |-> rest.targetDate]
  IN CASE rest.newsItems = << >> ->
            [found EXCEPT !.has_data = FALSE, !.news_date = day,
                          !.outcome = "empty", !.wrote = day]
       [] rest.newsItems # << >> /\ service = "cached" ->
            [found EXCEPT !.news_date = day, !.wrote = null]
       [] rest.newsItems # << >> /\ service = "nokey" -> found
       [] rest.newsItems # << >> /\ service = "ai" ->
            [found EXCEPT !.calledAI = TRUE]
       [] OTHER ->
            [found EXCEPT !.calledAI = TRUE, !.total_news = -1, !.has_data = FALSE,
                          !.news_date = day, !.wrote = null]

\* one generateDailySummary call, at the date of the clock
GenerateDailySummary ==
  /\ Len(summaries) < MaxSummaries
  /\ \E service \in Services :
       summaries' = Append(summaries, generateDailySummary(clock, service))
  /\ UNCHANGED <<root, assets, others, clock, ticks, flaky, runs, crawler, pc,
                 inflight, waited, calls, exitCode, startedAt, dateStr, current,
                 downloaded, skipped, errors, passes, site, server>>
  /\ UNCHANGED histLocals /\ UNCHANGED syncLocals /\ UNCHANGED history

(***************************************************************************)
(* The daily summary over stores that hold a record of today, of the day   *)
(* after it, of the days inside and at the end of the 7 days before it,    *)
(* and of a day beyond them, in the first days of the model and at the end *)
(* of 2025.                                                                *)
(***************************************************************************)
SummaryAges == {-1, 0, 2, 7, 8}
SummaryClocks == {addDays(startDate, ClockOffset), 20251231}
SummaryContents == {dayRecord(remoteItems), dayRecord(<< >>), wrongShape, notJson}

SummaryStores(day) ==
  UNION {[{pathOf(addDays(day, -age)) : age \in S} -> SummaryContents] :
           S \in {T \in SUBSET SummaryAges : Cardinality(T) <= MaxIndexFiles}}

InitSummary ==
  /\ InitProcess
  /\ flaky = {}
  /\ root = TRUE /\ others = << >>
  /\ clock \in SummaryClocks
  /\ assets \in SummaryStores(clock)

NextSummary == GenerateDailySummary \/ Tick

SpecSummary == InitSummary /\ [][NextSummary]_vars

(***************************************************************************)
(* Index passes over stores whose records are long enough for more than    *)
(* 100 items to fall into the 30 days of recentNews.                       *)
(***************************************************************************)
MaxRecentItems == 60
MaxRecentFiles == 3

RecentAges == {1, 2, 30, 31}
RecentDates == {addDays(addDays(startDate, ClockOffset), -age) : age \in RecentAges}

longList == [k \in 1..MaxRecentItems |-> newsItem(k, <<"politics">>)]

RecentContents == {dayRecord(longList), dayRecord(remoteItems)}

RecentStores ==
  UNION {[{pathOf(d) : d \in S} -> RecentContents] :
           S \in {T \in SUBSET RecentDates : Cardinality(T) <= MaxRecentFiles}}

InitRecent ==
  /\ InitProcess
  /\ flaky = {}
  /\ clock = addDays(startDate, ClockOffset)
  /\ root = TRUE /\ assets \in RecentStores /\ others = << >>

NextRecent == GenerateNewsIndex \/ Tick

SpecRecent == InitRecent /\ [][NextRecent]_vars

(***************************************************************************)
(* Index passes over a record whose first item carries any tag string of   *)
(* words, commas and blanks: delimiters in front, behind, repeated, alone. *)
(***************************************************************************)
MaxTagLen == 3

TagTokens == Delims \cup {"General", "politics"}

TagStrings ==
  {t \in UNION {[1..n -> TagTokens] : n \in 0..MaxTagLen} :
     \A n \in 1..(Len(t) - 1) : t[n] \in Delims \/ t[n + 1] \in Delims}

TagStores ==
  {(pathOf(addDays(startDate, 1)) :>
      dayRecord(<<newsItem(1, t), newsItem(2, <<"politics", ",", "economy">>)>>)) :
     t \in TagStrings}

InitTags ==
  /\ InitProcess
  /\ flaky = {}
  /\ clock = addDays(startDate, ClockOffset)
  /\ root = TRUE /\ assets \in TagStores /\ others = << >>

NextTags == GenerateNewsIndex \/ Tick

SpecTags == InitTags /\ [][NextTags]_vars

(***************************************************************************)
(* build.js: the archive pages and the search index, generated from the    *)
(* index of the last pass. build() calls generateNewsIndex, the page       *)
(* generators and generateAPIEndpoints one after the other and has no      *)
(* catch: a generator that throws ends the build.                          *)
(***************************************************************************)
recentApiCap == 50
cliDaysLimit == 7

\* this.daysLimit: options.daysLimit || null
DaysLimits == {null, 1, cliDaysLimit}

\* this.daysLimit ? moment().subtract(this.daysLimit, 'days').format('YYYYMMDD') : null
cutoffDate(limit, now) == IF limit = null THEN null ELSE addDays(now, -limit)

\* mutant of withinLimit: the day of the cutoff is left out
withinLimitAfter(date, cutoff) == cutoff = null \/ date > cutoff

\* !cutoffDate || day.date >= cutoffDate
withinLimit(date, cutoff) == cutoff = null \/ date >= cutoff

RECURSIVE ascendingSeq(_)
ascendingSeq(S) ==
  IF S = {} THEN << >> ELSE <<Min(S)>> \o ascendingSeq(S \ {Min(S)})

RECURSIVE flatten(_)
flatten(seqs) == IF seqs = << >> THEN << >> ELSE Head(seqs) \o flatten(Tail(seqs))

\* Object.entries(index.years): the year names are array indices, so they
\* come in ascending order
yearKeys(years) == ascendingSeq(DOMAIN years)

\* Object.entries(yearData.months): "10", "11" and "12" are array indices and
\* come first; "01" to "09" follow in the order they were inserted, which is
\* ascending
monthKeys(months) ==
  ascendingSeq({m \in DOMAIN months : m >= 10})
  \o ascendingSeq({m \in DOMAIN months : m < 10})

\* the days of the index within the limit, in the order of the loops over
\* years, months and days
daysWithin(ix, cutoff) ==
  LET daysOfYear(y) ==
        LET months == ix.years[y].months
            keys == monthKeys(months)
            within(day) == withinLimit(day.date, cutoff)
            all == SelectSeq(flatten([n \in DOMAIN keys |-> months[keys[n]]]), within)
        IN [n \in DOMAIN all |-> [year |-> y, day |-> all[n]]]
      years == yearKeys(ix.years)
  IN flatten([n \in DOMAIN years |-> daysOfYear(years[n])])

\* generateDayPage(day): readJson of the file, then data.videoList.length
\* and data.videoList.map, which throw on a file without a videoList
dayPageThrows(day) ==
  \/ day.file \notin DOMAIN assets
  \/ ~assets[day.file].json
  \/ ~assets[day.file].hasList

\* generateArchivePages(index): for every year with a day within the limit
\* the year page, then its day pages; the first generateDayPage that throws
\* rejects it
generateArchivePages(ix, limit, now) ==
  LET days == daysWithin(ix, cutoffDate(limit, now))
      bad == {n \in DOMAIN days : dayPageThrows(days[n].day)}
      stop == IF bad = {} THEN Len(days) + 1 ELSE Min(bad)
  IN [threw |-> bad # {},
      yearPages |-> {days[n].year : n \in {m \in DOMAIN days : m <= stop}},
      dayPages |-> {<<days[n].year, days[n].day.date>> :
                      n \in {m \in DOMAIN days : m < stop}}]

\* the entries of the search index of one day; a file that cannot be read
\* or has no videoList throws inside the try and gives a warning, no entry
searchEntries(year, day) ==
  IF dayPageThrows(day) THEN << >>
  ELSE [n \in DOMAIN assets[day.file].videoList |->
          LET v == assets[day.file].videoList[n]
          IN [id |-> v.video_id, category |-> v.news_hl_tag, date |-> day.date,
              year |-> year, month |-> monthOf(day.date), day |-> dayOf(day.date),
              url |-> <<"archive", year, day.date, v.video_id>>]]

\* generateAPIEndpoints(index): api/recent.json and api/search.json
generateAPIEndpoints(ix, limit, now) ==
  LET days == daysWithin(ix, cutoffDate(limit, now))
  IN [recent |-> slice(ix.recentNews, recentApiCap),
      search |-> flatten([n \in DOMAIN days |-> searchEntries(days[n].year, days[n].day)])]

\* build() after a pass that completed: generateArchivePages
GenerateArchivePages ==
  /\ passes # << >>
  /\ site.built < Len(passes)
  /\ ~passes[Len(passes)].index.failed
  /\ \E limit \in DaysLimits :
       LET out == generateArchivePages(passes[Len(passes)].index, limit, clock)
       IN site' = [noSite EXCEPT
                     !.built = Len(passes),
                     !.stage = IF out.threw THEN "failed" ELSE "pages",
                     !.daysLimit = limit,
                     !.yearPages = out.yearPages,
                     !.dayPages = out.dayPages]
  /\ UNCHANGED <<root, assets, others, clock, ticks, flaky, runs, crawler, pc,
                 inflight, waited, calls, exitCode, startedAt, dateStr, current,
                 downloaded, skipped, errors, passes, summaries, server>>
  /\ UNCHANGED histLocals /\ UNCHANGED syncLocals /\ UNCHANGED history

\* build() after generateArchivePages has returned: generateAPIEndpoints
GenerateAPIEndpoints ==
  /\ site.stage = "pages"
  /\ LET out == generateAPIEndpoints(passes[site.built].index, site.daysLimit, clock)
     IN site' = [site EXCEPT !.stage = "api", !.at = clock,
                             !.search = out.search, !.recent = out.recent]
  /\ UNCHANGED <<root, assets, others, clock, ticks, flaky, runs, crawler, pc,
                 inflight, waited, calls, exitCode, startedAt, dateStr, current,
                 downloaded, skipped, errors, passes, summaries, server>>
  /\ UNCHANGED histLocals /\ UNCHANGED syncLocals /\ UNCHANGED history

(***************************************************************************)
(* Builds over stores that hold records on either side of the cutoff of a  *)
(* limit of 1 and of 7 days, with items, without items, of the wrong shape *)
(* and unparseable.                                                        *)
(***************************************************************************)
MaxBuildFiles == 2

BuildAges == {1, 7, 8}
BuildDates == {addDays(addDays(startDate, ClockOffset), -age) : age \in BuildAges}

BuildContents ==
  { dayRecord(<<newsItem(1, <<"politics">>), newsItem(2, << >>)>>),
    dayRecord(<< >>), wrongShape, notJson }

BuildStores ==
  UNION {[{pathOf(d) : d \in S} -> BuildContents] :
           S \in {T \in SUBSET BuildDates : Cardinality(T) <= MaxBuildFiles}}

InitBuild ==
  /\ InitProcess
  /\ flaky = {}
  /\ clock = addDays(startDate, ClockOffset)
  /\ root = TRUE /\ assets \in BuildStores /\ others = << >>

NextBuild == GenerateNewsIndex \/ GenerateArchivePages \/ GenerateAPIEndpoints \/ Tick

SpecBuild == InitBuild /\ [][NextBuild]_vars

(***************************************************************************)
(* local-static-server.js: the handler of a request. The URL is a sequence *)
(* of raw path segments and a query; a name is a segment after decodeURI.  *)
(***************************************************************************)
RawSegments == {"css", "index.html", "secret", ".", "..", "a..b", "%2e%2e", "%"}

\* decodeURI of a segment: %2e is a dot, a lone % throws URIError
decodeURI(raw) ==
  [threw |-> raw = "%",
   text |-> IF raw = "%2e%2e" THEN ".." ELSE raw]

\* mutant of includesDotDot: no path is refused
includesDotDotNever(text) == FALSE

\* urlPath.includes('..') for a segment of the path
includesDotDot(text) == text \in {"..", "a..b"}

\* path.join(base, names): "." is dropped and ".." steps to the parent
RECURSIVE join(_, _)
join(base, names) ==
  IF names = << >> THEN base
  ELSE join(CASE Head(names) = "." -> base
              [] Head(names) = ".." ->
                   IF base = << >> THEN base ELSE SubSeq(base, 1, Len(base) - 1)
              [] OTHER -> Append(base, Head(names)),
            Tail(names))

\* fs.stat(p): an error for a path that does not exist
stat(tree, p) == IF p \in DOMAIN tree THEN tree[p] ELSE "none"

\* streamFile(p, res): the stream fails on a directory and on a file that
\* cannot be read, and the response is 500
streamFile(tree, p, readFails, accessed) ==
  IF stat(tree, p) # "file" \/ readFails
  THEN [status |-> 500, served |-> << >>, accessed |-> accessed \cup {p}]
  ELSE [status |-> 200, served |-> p, accessed |-> accessed \cup {p}]

send404(accessed) == [status |-> 404, served |-> << >>, accessed |-> accessed]

\* the handler of http.createServer
handler(tree, url, readFails) ==
  LET decoded == [n \in DOMAIN url.path |-> decodeURI(url.path[n])]
      urlPath == [n \in DOMAIN decoded |-> decoded[n].text]
      filePath == join(distDir, urlPath)
      indexPath == join(filePath, <<"index.html">>)
  IN CASE \E n \in DOMAIN decoded : decoded[n].threw ->
            [status |-> 500, served |-> << >>, accessed |-> {}]
       [] (\A n \in DOMAIN decoded : ~decoded[n].threw)
          /\ (\E n \in DOMAIN urlPath : includesDotDot(urlPath[n])) ->
            send404({})
       [] OTHER ->
            IF stat(tree, filePath) = "file"
            THEN streamFile(tree, filePath, readFails, {filePath})
            ELSE IF stat(tree, indexPath) = "none"
                 THEN send404({filePath, indexPath})
                 ELSE streamFile(tree, indexPath, readFails, {filePath, indexPath})

MaxUrlLen == 2

Urls ==
  [path : UNION {[1..n -> RawSegments] : n \in 0..MaxUrlLen}, query : {"", ".."}]

\* one request, from its arrival to the end of the response; the handler
\* keeps nothing from one request to the next, so the first request of a
\* server shows every exchange
Request ==
  /\ ~server.answered
  /\ \E url \in Urls : \E readFails \in BOOLEAN :
       LET res == handler(server.tree, url, readFails)
       IN server' = [server EXCEPT !.url = url, !.answered = TRUE,
                                   !.status = res.status, !.served = res.served,
                                   !.accessed = res.accessed]
  /\ UNCHANGED <<root, assets, others, clock, ticks, flaky, runs, crawler, pc,
                 inflight, waited, calls, exitCode, startedAt, dateStr, current,
                 downloaded, skipped, errors, passes, summaries, site>>
  /\ UNCHANGED histLocals /\ UNCHANGED syncLocals /\ UNCHANGED history

\* the files the server may find: a site with or without its index pages,
\* a directory in the place of an index page, a file beside dist
OptionalFiles ==
  {<<"dist", "index.html">>, <<"dist", "css", "index.html">>, <<"secret">>}

Trees ==
  {bareTree @@ (<<"dist", "css">> :> "dir") @@ [p \in S |-> "file"] :
     S \in SUBSET OptionalFiles}
  \cup {bareTree @@ (<<"dist", "css">> :> "dir")
          @@ (<<"dist", "css", "index.html">> :> "dir") @@ (<<"secret">> :> "file")}

InitServer ==
  /\ InitIdle
  /\ flaky = {}
  /\ clock = addDays(startDate, ClockOffset)
  /\ root = TRUE /\ assets = storeOf({}) /\ others = << >>
  /\ server \in {noExchange(tree) : tree \in Trees}

NextServer == Request

SpecServer == InitServer /\ [][NextServer]_vars

(***************************************************************************)
(* What the properties below read off a state                              *)
(***************************************************************************)
\* the dates whose canonical file {year}/{date}.json is in the store
StoredDates == {p[2] : p \in {q \in DOMAIN assets : q[1] = q[2] \div 10000}}
Stored(d) == d \in StoredDates

\* the dates of a run's downloadDate calls, in call order, and as a set
CallDates(cs) == [k \in DOMAIN cs |-> cs[k][1]]
CallSet(cs) == {cs[k][1] : k \in DOMAIN cs}

\* the dates a run has written, and those for which it has invoked loadData
WrittenDates(cs) == {cs[k][1] : k \in {j \in DOMAIN cs : cs[j][3] \in Writes}}
FetchedDates(cs) == {cs[k][1] : k \in {j \in DOMAIN cs : cs[j][3] # "none"}}

\* the store as it was when the running process started
StartDates == StoredDates \ WrittenDates(calls)

\* the calendar dates from a to b, computed day by day
Days(a, b) == dateRange(a, b)

IsPrefix(s, t) == Len(s) <= Len(t) /\ \A k \in 1..Len(s) : s[k] = t[k]

\* a step in which downloadDate checks its date (dateStr') against the store
ChecksDate == pc \in {"idle", "loop"} /\ pc' \in {"fetching", "delay"}

(***************************************************************************)
(* C1: in both crawlers, a date whose canonical file exists when            *)
(* downloadDate checks it is not fetched (no loadData call starts), gets    *)
(* the outcome 'exists', and its processing leaves the store unchanged.     *)
(***************************************************************************)
C1_ExistsIsSkipped ==
  [][ (ChecksDate /\ Stored(dateStr'))
        => /\ inflight' = inflight
           /\ pc' = "delay"
           /\ calls' = Append(calls, <<dateStr', "exists", "none">>)
           /\ assets' = assets /\ root' = root ]_vars

\* a run has just skipped a date that was already stored
C1_Witness ==
  /\ pc = "delay" /\ calls # << >>
  /\ calls[Len(calls)][2] = "exists"
  /\ Stored(calls[Len(calls)][1])

(***************************************************************************)
(* C2: when the store's latest date L is before the 'now' of a day-sync    *)
(* run, the run calls downloadDate for L+1, L+2, ..., now in ascending     *)
(* order, each exactly once, whatever the outcomes: at every moment the    *)
(* calls made are a prefix of that list, and all of it when main returns.  *)
(***************************************************************************)
C2_GapDates ==
  (crawler = "sync" /\ StartDates # {} /\ Max(StartDates) < startedAt)
    => LET gap == Days(format(moment(Max(StartDates)) + 1), startedAt)
       IN /\ IsPrefix(CallDates(calls), gap)
          /\ pc = "done" => CallDates(calls) = gap

\* a gap of three dates has been processed, one of them with a failed fetch
C2_Witness ==
  /\ crawler = "sync" /\ pc = "done" /\ branch = "gap"
  /\ Len(calls) = 3
  /\ \E k \in DOMAIN calls : calls[k][2] \in {"error", "nodata"}

(***************************************************************************)
(* C3: a date whose fetch failed in an earlier run of a crawler (loadData  *)
(* threw, or no file was created) and that is still absent from the store  *)
(* is attempted again by a later run of the same crawler.                  *)
(***************************************************************************)
C3_FailedIsReattempted ==
  (pc = "done" /\ exitCode = 0)
    => \A d \in failedBefore[crawler] : Stored(d) \/ d \in CallSet(calls)

(***************************************************************************)
(* C4, as claimed: when a crawler runs twice in succession on the same     *)
(* clock date and the remote source answers the same for every date in     *)
(* both runs, the second run writes no file and every date it processes    *)
(* resolves to 'exists'.                                                   *)
(***************************************************************************)
DaySet(a, b) == {format(n) : n \in moment(a)..moment(b)}

\* the running process follows a run of the same crawler, no midnight has
\* passed since that run started, and no date got two different answers
SecondRun ==
  /\ crawler # "none" /\ prevCrawler = crawler
  /\ clock = prevStartedAt
  /\ \A j \in DOMAIN calls : \A k \in DOMAIN prevCalls :
       (calls[j][1] = prevCalls[k][1] /\ calls[j][3] # "none" /\ prevCalls[k][3] # "none")
         => calls[j][3] = prevCalls[k][3]

C4_SecondRunAllExist ==
  (SecondRun /\ pc = "done")
    => /\ WrittenDates(calls) = {}
       /\ \A k \in DOMAIN calls : calls[k][2] = "exists"

(***************************************************************************)
(* C4, amended: under the same conditions the second run writes no file,   *)
(* and every date it processes either resolves to 'exists' or is a date    *)
(* whose fetch failed in the first run and fails again.                    *)
(***************************************************************************)
C4_SecondRunWritesNothing ==
  SecondRun
    => /\ WrittenDates(calls) = {}
       /\ \A k \in DOMAIN calls :
            \/ calls[k][2] = "exists"
            \/ \E j \in DOMAIN prevCalls :
                 /\ prevCalls[j][1] = calls[k][1]
                 /\ prevCalls[j][3] \in {"nofile", "throw"}
                 /\ calls[k][3] \in {"nofile", "throw"}

\* a second run in succession has returned after attempting a date again
C4_Witness ==
  /\ SecondRun /\ pc = "done" /\ runs = 1
  /\ calls # << >> /\ prevCalls # << >>

(***************************************************************************)
(* C5: a historical run over a non-empty store processes exactly the dates *)
(* from 20110101 to the day before the earliest stored date, ascending and *)
(* each once; over the store holding only 20120701..20120703, with every   *)
(* fetch storing a non-empty record, these are the 547 dates               *)
(* 20110101..20120630, none is skipped, and afterwards                     *)
(* findEarliestExistingRecord returns 20110101.                            *)
(***************************************************************************)
C5_BackfillRange ==
  /\ (crawler = "hist" /\ StartDates # {})
       => LET range == Days(20110101, format(moment(Min(StartDates)) - 1))
          IN /\ IsPrefix(CallDates(calls), range)
             /\ pc = "done" => CallDates(calls) = range
  /\ ( /\ crawler = "hist" /\ pc = "done"
       /\ StartDates = backfillDates
       /\ \A k \in DOMAIN calls : calls[k][3] = "items" )
       => /\ Len(calls) = 547
          /\ calls[1][1] = 20110101 /\ calls[547][1] = 20120630
          /\ \A k \in DOMAIN calls : calls[k][2] = "success"
          /\ skipped = 0 /\ downloaded = 547
          /\ findEarliestExistingRecord = 20110101

\* the backfill over 20120701..20120703 has returned, every fetch stored
C5_Witness ==
  /\ crawler = "hist" /\ pc = "done" /\ runs = 0
  /\ StartDates = backfillDates
  /\ Len(calls) = 547
  /\ \A k \in DOMAIN calls : calls[k][3] = "items"

(***************************************************************************)
(* C6: after an earlier historical run, the range the next historical run  *)
(* processes contains every date of [20110101, originally earliest stored  *)
(* date - 1] that is still absent from the store, and no stored date.      *)
(***************************************************************************)
C6_NextRunCoversGap ==
  (crawler = "hist" /\ pc = "done" /\ exitCode = 0 /\ prevCrawler = "hist"
     /\ origEarliest # null)
    => /\ \A d \in DaySet(20110101, format(moment(origEarliest) - 1)) :
            d \in StartDates \/ d \in CallSet(calls)
       /\ CallSet(calls) \cap StartDates = {}

(***************************************************************************)
(* C7: over a store with no latest date, a day-sync run attempts exactly   *)
(* the 7 dates now-6 .. now, each exactly once, and no other date ('now'   *)
(* being a date the clock showed during the run).                          *)
(***************************************************************************)
C7_SevenDayWindow ==
  (crawler = "sync" /\ pc = "done" /\ branch = "fallback")
    => \E now \in DaySet(startedAt, clock) :
         /\ Len(calls) = 7
         /\ CallSet(calls) = DaySet(format(moment(now) - 6), now)

(***************************************************************************)
(* C8: when the store's latest date is on or after 'now', a day-sync run   *)
(* processes no date but 'now', and fetches 'now' exactly when its file is *)
(* absent from the store.                                                  *)
(***************************************************************************)
C8_RecheckToday ==
  (crawler = "sync" /\ pc = "done" /\ StartDates # {} /\ Max(StartDates) >= startedAt)
    => /\ CallSet(calls) \subseteq {startedAt}
       /\ startedAt \in FetchedDates(calls) <=> startedAt \notin StartDates

(***************************************************************************)
(* C9: every processed date ends in exactly one outcome. In the historical *)
(* crawler each of downloaded, skipped, noData, errors counts the dates    *)
(* with that outcome, and after every iteration their sum is processed; in *)
(* the gap loop of the day-sync downloaded + skipped + errors is the       *)
(* number of dates processed.                                              *)
(***************************************************************************)
Count(cs, R) == Cardinality({k \in DOMAIN cs : cs[k][2] \in R})

C9_OneOutcomePerDate ==
  /\ crawler = "hist"
       => /\ downloaded = Count(calls, {"success"})
          /\ skipped = Count(calls, {"exists"})
          /\ noData = Count(calls, {"nodata"})
          /\ errors = Count(calls, {"error"})
          /\ downloaded + skipped + noData + errors = Len(calls)
          /\ pc \in {"loop", "delay", "done"}
               => downloaded + skipped + noData + errors = processed
  /\ (crawler = "sync" /\ branch = "gap")
       => /\ downloaded = Count(calls, {"success"})
          /\ skipped = Count(calls, {"exists"})
          /\ errors = Count(calls, {"error", "nodata"})
          /\ downloaded + skipped + errors = Len(calls)

\* a historical run has counted a stored date and a failed one
C9_Witness ==
  /\ crawler = "hist" /\ pc = "delay"
  /\ processed >= 2 /\ downloaded >= 1 /\ errors >= 1

(***************************************************************************)
(* C10: fetching is sequential with an enforced delay: at most one         *)
(* loadData call is in flight at any moment, and a loadData call that      *)
(* follows another date of the same run starts only after the inter-       *)
(* request delay (800 ms historical, 1000 ms day-sync) has elapsed.        *)
(***************************************************************************)
C10_SequentialWithDelay ==
  /\ [](inflight \in {0, 1})
  /\ [][ (inflight' > inflight /\ calls # << >>)
           => waited >= (IF crawler' = "hist" THEN 800 ELSE 1000) ]_vars

\* a second loadData call of a run is in flight
C10_Witness ==
  /\ pc = "fetching" /\ inflight = 1 /\ calls # << >>

(***************************************************************************)
(* C11: a fetch that throws for a date, and in the historical crawler a    *)
(* read of the fetched file that throws, gives that date the outcome       *)
(* 'error' and nothing more: the run that has finished has called          *)
(* downloadDate for every date of its range, the dates after the failed    *)
(* one included, and has exited with code 0.                               *)
(***************************************************************************)
ErrorAnswers == IF crawler = "hist" THEN {"throw", "readfail"} ELSE {"throw"}

C11_ErrorStaysInLoop ==
  /\ \A k \in DOMAIN calls : calls[k][3] \in ErrorAnswers => calls[k][2] = "error"
  /\ (pc = "done" /\ \E k \in DOMAIN calls : calls[k][3] \in ErrorAnswers)
       => /\ exitCode = 0
          /\ crawler = "hist" /\ StartDates # {}
               => CallDates(calls) = Days(startDate, addDays(Min(StartDates), -1))
          /\ crawler = "sync" /\ branch = "gap"
               => CallDates(calls) = Days(addDays(Max(StartDates), 1), startedAt)
          /\ crawler = "sync" /\ branch = "fallback" => Len(calls) = lookbackDays

\* a finished run whose fetch failed for a date that was not its last
C11_Witness ==
  /\ pc = "done" /\ exitCode = 0
  /\ \E k \in DOMAIN calls :
       /\ k < Len(calls)
       /\ calls[k][3] \in ErrorAnswers /\ calls[k][2] = "error"
       /\ calls[Len(calls)][2] = "success"

(***************************************************************************)
(* C12: in both crawlers a date whose fetch returned without throwing and  *)
(* left no file at the canonical path gets the outcome 'error' (never      *)
(* 'success', 'exists' or 'nodata') and is counted in the errors counter.  *)
(***************************************************************************)
C12_MissingFileIsError ==
  /\ \A k \in DOMAIN calls : calls[k][3] = "nofile" => calls[k][2] = "error"
  /\ errors >= Cardinality({k \in DOMAIN calls : calls[k][3] = "nofile"})

(***************************************************************************)
(* C14: a crawler process, day-sync or historical, that finds the store    *)
(* root missing or unreadable goes no further and exits with code 1; a     *)
(* process whose store root was readable exits with code 0, whatever the   *)
(* outcomes of its dates. (The root is created only by a fetch of the      *)
(* running process, so a root still missing was missing when it started.)  *)
(***************************************************************************)
C14_ExitCodes ==
  /\ (crawler # "none" /\ ~root) => (pc = "done" /\ exitCode = 1)
  /\ (pc = "done" /\ StartDates # {}) => exitCode = 0

(***************************************************************************)
(* C15: over a store whose root holds, beside the year directories with    *)
(* records, only entries that are no directory and empty directories,      *)
(* findLatestAssetDate returns the greatest stored date key and            *)
(* findEarliestExistingRecord the smallest, and both return null when no   *)
(* date file is stored.                                                    *)
(***************************************************************************)
Skippable == \A name \in DOMAIN others : others[name] \in {"file", "dir"}

C15_FindersGiveExtremes ==
  (root /\ Skippable) =>
     /\ crawler = "sync" =>
          latestAssetDate = IF StoredDates = {} THEN null ELSE Max(StoredDates)
     /\ crawler = "hist" =>
          /\ pc = "loop"
          /\ origEarliest = IF StoredDates = {} THEN null ELSE Min(StoredDates)
          /\ StoredDates # {} => endDate = addDays(Min(StoredDates), -1)

\* the day-sync has found the latest date of a store of two years, past an
\* entry that is no directory and an empty directory that sort after them
C15_Witness ==
  /\ crawler = "sync" /\ root
  /\ Cardinality({yearOf(d) : d \in StoredDates}) = 2
  /\ \E a, b \in DOMAIN others : a > b /\ others[a] = "file" /\ others[b] = "dir"
                                  /\ b > yearOf(Max(StoredDates))
  /\ latestAssetDate = Max(StoredDates)

(***************************************************************************)
(* C13: a date whose fetch succeeded with zero items is stored as a record *)
(* with an empty item list; its outcome is 'nodata' in the historical      *)
(* crawler and 'success' in the day-sync, never an error, and the errors   *)
(* counter does not count it; an index pass over the store a run leaves    *)
(* lists the date once, with 0 items; and no day-sync run that finds the   *)
(* record in the store fetches the date again.                             *)
(***************************************************************************)
EmptyFetched(cs) == {cs[k][1] : k \in {j \in DOMAIN cs : cs[j][3] = "empty"}}
ascending == CHOOSE l \in Listings : inOrder(l)
StoredEmpty(d) == Stored(d) /\ assets[<<d \div 10000, d>>] = dayRecord(<< >>)

RECURSIVE SumOver(_, _)
SumOver(f, S) ==
  IF S = {} THEN 0
  ELSE LET x == CHOOSE y \in S : TRUE IN f[x] + SumOver(f, S \ {x})

ItemsStored ==
  SumOver([p \in DOMAIN assets |->
             IF assets[p].json /\ assets[p].hasList THEN Len(assets[p].videoList) ELSE 0],
          DOMAIN assets)

Completed == {k \in DOMAIN passes : ~passes[k].index.failed}

C17_TotalIsSum ==
  \A k \in Completed :
     /\ passes[k].index.totalNews = ItemsStored
     /\ passes[k].index.totalNews =
          SumOver([y \in DOMAIN passes[k].index.years |-> passes[k].index.years[y].totalNews],
                  DOMAIN passes[k].index.years)

\* a pass has counted the items of two records of different sizes in two years
C17_Witness ==
  \E k \in Completed :
     /\ Cardinality(DOMAIN passes[k].index.years) = 2
     /\ \A y \in DOMAIN passes[k].index.years : passes[k].index.years[y].totalNews > 0
     /\ passes[k].index.totalNews = 4

(***************************************************************************)
(* C18 as stated: any two generateNewsIndex passes over the same unchanged *)
(* store return the same index in every field, whatever the dates the      *)
(* passes run at and whatever the orders the root is listed in.            *)
(* (No step of this specification writes to the store.)                    *)
(***************************************************************************)
returned(ix) ==
  [failed |-> ix.failed, totalNews |-> ix.totalNews, dateRange |-> ix.dateRange,
   years |-> ix.years, categories |-> ix.categories, recentNews |-> ix.recentNews]

C18_SameIndexAtAnyTime ==
  \A j, k \in DOMAIN passes : returned(passes[j].index) = returned(passes[k].index)

(***************************************************************************)
(* C18 amended: two passes over the same unchanged store return the same   *)
(* totalNews, dateRange, years and, as counts per category, categories,    *)
(* whatever the dates they run at and the orders the root is listed in;    *)
(* two passes that run on the same calendar date return the same           *)
(* recentNews as well.                                                     *)
(***************************************************************************)
C18_SameIndexOnSameDate ==
  \A j, k \in DOMAIN passes :
     /\ [returned(passes[j].index) EXCEPT !.recentNews = << >>]
          = [returned(passes[k].index) EXCEPT !.recentNews = << >>]
     /\ passes[j].at = passes[k].at
          => returned(passes[j].index) = returned(passes[k].index)

\* two passes on one date, one over the sorted listing and one over another
\* order, have indexed records of two years that reach recentNews
C18_Witness ==
  \E j, k \in Completed :
     /\ passes[j].at = passes[k].at
     /\ passes[j].sorted /\ ~passes[k].sorted
     /\ Cardinality(DOMAIN passes[j].index.years) = 2
     /\ Cardinality({passes[j].index.recentNews[n].date :
                       n \in DOMAIN passes[j].index.recentNews}) = 2

(***************************************************************************)
(* C19: in a generateNewsIndex pass that completed, every stored file that *)
(* does not parse, or parses to an object without a videoList, is skipped  *)
(* with a warning: console.warn was called for it, it is in no month list, *)
(* it adds nothing to totalNews, and every day record of the store, of the *)
(* same and of later year directories, is in the index.                    *)
(***************************************************************************)
ListedOf(months) ==
  UNION {{months[m][n].file : n \in DOMAIN months[m]} : m \in DOMAIN months}
Listed(ix) == UNION {ListedOf(ix.years[y].months) : y \in DOMAIN ix.years}
Warned(ix) == {ix.warnings[n] : n \in DOMAIN ix.warnings}
BadFiles == {p \in DOMAIN assets : ~assets[p].json \/ ~assets[p].hasList}

C19_BadFileIsSkipped ==
  \A k \in Completed :
     /\ \A p \in BadFiles : p \in Warned(passes[k].index) /\ p \notin Listed(passes[k].index)
     /\ passes[k].index.totalNews = ItemsStored
     /\ DOMAIN assets \ BadFiles \subseteq Listed(passes[k].index)

(***************************************************************************)
(* C20: a generateNewsIndex pass over a readable root completes also when  *)
(* a year directory cannot be stat'ed or listed (that directory is skipped *)
(* with a warning), and the index it returns covers the records of all     *)
(* other year directories.                                                 *)
(***************************************************************************)
C20_BadYearIsSkipped ==
  \A k \in DOMAIN passes :
     root => /\ ~passes[k].index.failed
             /\ DOMAIN assets \ BadFiles \subseteq Listed(passes[k].index)
             /\ passes[k].index.totalNews = ItemsStored

(***************************************************************************)
(* C16: every lookup of the record of a date d uses the path               *)
(* {d[0:4]}/{d}.json under the store root; here the lookups of the daily   *)
(* summary, of today's record and of the fallback dates, for dates of any  *)
(* year. (fileExists and the post-fetch verification of the crawlers build *)
(* the path by pathOf.)                                                    *)
(***************************************************************************)
C16_CanonicalPaths ==
  \A k \in DOMAIN summaries :
     \A n \in DOMAIN summaries[k].looked :
        summaries[k].looked[n][2]
          = <<summaries[k].looked[n][1] \div 10000, summaries[k].looked[n][1]>>

\* the items of the stored record of date d that fall into the recent window
\* of a pass at date at
Qualifying(d, at) ==
  LET data == assets[pathOf(d)]
  IN IF data.json /\ data.hasList /\ diffDays(at, d) <= recentDays
     THEN Len(data.videoList) ELSE 0

QualifyingAfter(d, at) ==
  SumOver([e \in StoredDates |-> Qualifying(e, at)], {e \in StoredDates : e > d})

KeptOf(recent, d) == Cardinality({n \in DOMAIN recent : recent[n].date = d})

\* C21: after generateNewsIndex, recentNews is in descending date order, has
\* at most 100 entries and no item dated more than 30 days before the date
\* of the pass; of the items that qualify, the pass keeps those of the latest
\* dates: a date has as many entries as it has qualifying items, as far as
\* the 100 places less the qualifying items of later dates reach.
C21_RecentWindow ==
  \A k \in Completed :
    \A recent \in {passes[k].index.recentNews} :
      /\ \A a, b \in DOMAIN recent : a < b => recent[a].date >= recent[b].date
      /\ Len(recent) <= recentCap
      /\ \A n \in DOMAIN recent : diffDays(passes[k].at, recent[n].date) <= recentDays
      /\ \A d \in StoredDates :
           \A room \in {recentCap - QualifyingAfter(d, passes[k].at)} :
             KeptOf(recent, d) =
               Min({Qualifying(d, passes[k].at), IF room < 0 THEN 0 ELSE room})

\* a pass found more than 100 qualifying items on three dates, beside a
\* record older than the window, and kept only a part of the oldest date
C21_Witness ==
  \E k \in Completed :
    /\ SumOver([e \in StoredDates |-> Qualifying(e, passes[k].at)], StoredDates) > recentCap
    /\ \E d \in StoredDates :
         /\ KeptOf(passes[k].index.recentNews, d) > 0
         /\ KeptOf(passes[k].index.recentNews, d) < Qualifying(d, passes[k].at)
    /\ \E d \in StoredDates :
         /\ diffDays(passes[k].at, d) > recentDays
         /\ assets[pathOf(d)].videoList # << >>

\* the places of the stored tag strings that hold the word w
TagPlaces(w) ==
  {<<p, n, m>> \in
     UNION {UNION {{<<q, a, b>> : b \in DOMAIN assets[q].videoList[a].news_hl_tag} :
                     a \in DOMAIN assets[q].videoList} : q \in DOMAIN assets} :
     assets[p].videoList[n].news_hl_tag[m] = w}

TagWords ==
  UNION {UNION {{assets[q].videoList[a].news_hl_tag[b] :
                   b \in DOMAIN assets[q].videoList[a].news_hl_tag} :
                  a \in DOMAIN assets[q].videoList} : q \in DOMAIN assets} \ Delims

\* C22: the category histogram of generateNewsIndex never has the key
\* "General" nor the empty key, whatever delimiters a tag string starts with,
\* ends with or repeats; every other word of a tag string is a key, counted
\* once for each place it occurs at, and there is no other key.
C22_CategoryHistogram ==
  \A k \in Completed :
    \A cats \in {passes[k].index.categories} :
      /\ "General" \notin DOMAIN cats
      /\ "" \notin DOMAIN cats
      /\ DOMAIN cats = TagWords \ {"General"}
      /\ \A w \in DOMAIN cats : cats[w] = Cardinality(TagPlaces(w))

\* a pass has read a tag that starts with two delimiters and names General,
\* beside an item whose two words were counted
C22_Witness ==
  \E k \in Completed : \E p \in DOMAIN assets :
    \E tag \in {assets[p].videoList[1].news_hl_tag} :
      /\ Len(tag) >= 3
      /\ tag[1] \in Delims /\ tag[2] \in Delims
      /\ "General" \in TagWords
      /\ tag[3] = "General"
      /\ passes[k].index.categories["politics"] = 1
      /\ passes[k].index.categories["economy"] = 1

\* the dates of the stored files that parse: the day records a pass folds
FoldedDates == {d \in StoredDates : assets[pathOf(d)].json}

\* C23: after generateNewsIndex, dateRange.start and dateRange.end are the
\* earliest and the latest date of the day records folded into the index;
\* over a store without a day record both are null, totalNews is 0,
\* categories and recentNews are empty, and the pass over such a store
\* (its root and its directories readable) does not fail.
C23_DateRange ==
  /\ \A k \in Completed :
       \A ix \in {passes[k].index} :
         IF FoldedDates = {}
         THEN /\ ix.dateRange = [start |-> null, end |-> null]
              /\ ix.totalNews = 0
              /\ ix.categories = << >>
              /\ ix.recentNews = << >>
         ELSE /\ ix.dateRange.start = Min(FoldedDates)
              /\ ix.dateRange.end = Max(FoldedDates)
  /\ (root /\ FoldedDates = {} /\ \A n \in DOMAIN others : others[n] \in {"file", "dir"})
       => Completed = DOMAIN passes

\* a pass has folded two records of different dates, the earlier one of the
\* wrong shape
C23_Witness ==
  \E k \in Completed :
    /\ Cardinality(FoldedDates) = 2
    /\ ~assets[pathOf(Min(FoldedDates))].hasList
    /\ passes[k].index.dateRange.start < passes[k].index.dateRange.end

\* C24: in the index, every list years[y].months[m] is in strictly ascending
\* date order, so without a date twice, and every summary of it has a date
\* of year y and month m.
C24_MonthLists ==
  \A k \in Completed :
    \A y \in DOMAIN passes[k].index.years :
      \A m \in DOMAIN passes[k].index.years[y].months :
        \A list \in {passes[k].index.years[y].months[m]} :
          /\ \A a, b \in DOMAIN list : a < b => list[a].date < list[b].date
          /\ \A a \in DOMAIN list :
               yearOf(list[a].date) = y /\ monthOf(list[a].date) = m

\* a pass has put two days into one month list
C24_Witness ==
  \E k \in Completed :
    \E y \in DOMAIN passes[k].index.years :
      \E m \in DOMAIN passes[k].index.years[y].months :
        Len(passes[k].index.years[y].months[m]) = 2

\* a historical run has printed its final summary
Summarised == crawler = "hist" /\ pc = "done" /\ report.printed

\* C25: the final summary of a historical run that has attempted a date
\* reports as success rate the successful fetches over the dates processed
\* less the dates that existed, as a percentage rounded to the nearest
\* integer (v - 1/2 <= 100 * downloaded / (processed - skipped) < v + 1/2).
C25_SuccessRate ==
  (Summarised /\ processed - skipped > 0) =>
     \A den \in {processed - skipped} : \A v \in {report.successRate.value} :
        /\ report.successRate.kind = "number"
        /\ (2 * v - 1) * den <= 200 * downloaded
        /\ 200 * downloaded < (2 * v + 1) * den

\* a summary whose rate is rounded up: some fetch of the range failed
C25_Witness ==
  /\ Summarised
  /\ errors > 0 /\ downloaded > 0
  /\ report.successRate.value * (processed - skipped) > 100 * downloaded

\* C28: the totals of the final summary of a historical run are consistent:
\* the reported total of days is the number of dates processed and is not
\* negative, and the denominator of the success rate, total - skipped, is
\* greater than zero, also when the end date lies before the start date.
C28_TotalsConsistent ==
  Summarised =>
     /\ report.total = processed
     /\ report.total >= 0
     /\ report.total - skipped > 0

\* the indexed days on or after the cutoff of the search index written last
Searched ==
  {p \in Listed(passes[site.built].index) :
     site.daysLimit = null \/ p[2] >= addDays(site.at, -site.daysLimit)}

EntriesOf(date, id) ==
  {n \in DOMAIN site.search : site.search[n].date = date /\ site.search[n].id = id}

\* C26: the search index written by generateAPIEndpoints has exactly one
\* entry for every news item of every indexed day on or after the cutoff of
\* the day limit (of every indexed day without a limit) and no other entry;
\* year, month and day of an entry are the parts of its date, and its url is
\* /archive/{year}/{date}.html#{video_id}.
C26_SearchIndex ==
  site.stage = "api" =>
    /\ \A p \in Searched : \A n \in DOMAIN assets[p].videoList :
         Cardinality(EntriesOf(p[2], assets[p].videoList[n].video_id)) = 1
    /\ Len(site.search) =
         SumOver([p \in Searched |-> Len(assets[p].videoList)], Searched)
    /\ \A n \in DOMAIN site.search :
         \A e \in {site.search[n]} :
           /\ e.year = yearOf(e.date)
           /\ e.month = monthOf(e.date)
           /\ e.day = dayOf(e.date)
           /\ e.url = <<"archive", yearOf(e.date), e.date, e.id>>

\* a search index written under a limit of 7 days, over a store with items
\* on the day of the cutoff and on the day before it
C26_Witness ==
  /\ site.stage = "api" /\ site.daysLimit = cliDaysLimit
  /\ \E p \in Searched : p[2] = addDays(site.at, -cliDaysLimit) /\ assets[p].videoList # << >>
  /\ \E p \in Listed(passes[site.built].index) \ Searched : assets[p].videoList # << >>
  /\ Len(site.search) = 2

\* C27: every day summary that generateNewsIndex places in the index can be
\* rendered: after a pass that completed, generateArchivePages returns
\* without throwing, so that the build goes on to generateAPIEndpoints.
C27_ArchivePagesComplete ==
  site.built > 0 => site.stage \in {"pages", "api"}

\* the days of the 7 before day whose stored record has items
Candidates(day) ==
  {d \in {addDays(day, -n) : n \in 1..summaryLookback} : readItems(pathOf(d)) # << >>}

Undecodable == \E n \in DOMAIN server.url.path : server.url.path[n] = "%"
RequestNames == [n \in DOMAIN server.url.path |-> decodeURI(server.url.path[n]).text]
HasDotDot ==
  ~Undecodable /\ \E n \in DOMAIN RequestNames : RequestNames[n] \in {"..", "a..b"}

\* the path under dist that a request without ".." addresses, and its index
notDot(name) == name # "."
Addressed == distDir \o SelectSeq(RequestNames, notDot)
AddressedIndex == Append(Addressed, "index.html")

UnderDist(p) == IsPrefix(distDir, p)

\* C30 as stated: a request whose decoded path contains ".." is answered
\* with 404 without a filesystem access; every other request is answered
\* from under dist only, with the file itself, the index.html of the
\* addressed directory, or 404.
C30_FileIndexOr404 ==
  server.answered =>
    IF HasDotDot
    THEN server.status = 404 /\ server.accessed = {}
    ELSE /\ \A p \in server.accessed : UnderDist(p)
         /\ \/ server.status = 404
            \/ /\ server.status = 200
               /\ server.served \in {Addressed, AddressedIndex}

\* C30, amended: a request whose decoded path contains ".." is answered
\* with 404 without a filesystem access; every other request touches paths
\* under dist only and is answered with the file itself, the index.html of
\* the addressed directory, 404, or 500 when the path cannot be decoded or
\* the file to be served cannot be read.
C30_FileIndex404Or500 ==
  server.answered =>
    IF HasDotDot
    THEN server.status = 404 /\ server.accessed = {}
    ELSE /\ \A p \in server.accessed : UnderDist(p)
         /\ \/ server.status = 404
            \/ /\ server.status = 200
               /\ server.served \in {Addressed, AddressedIndex}
               /\ stat(server.tree, server.served) = "file"
            \/ /\ server.status = 500
               /\ \/ Undecodable
                  \/ stat(server.tree, Addressed) = "file"
                  \/ stat(server.tree, AddressedIndex) # "none"

\* a request for the file beside dist through an encoded "..", refused
C30_Witness ==
  /\ server.answered
  /\ server.url.path = <<"%2e%2e", "secret">>
  /\ stat(server.tree, <<"secret">>) = "file"
  /\ server.status = 404 /\ server.accessed = {}
====
